---- MODULE Spec2Model ----
(***************************************************************************)
(* K8s Health Monitor (src/main.py): the tick endpoint, the background     *)
(* run monitor_task, generate_kubeconfig and fetch_error_logs.             *)
(*                                                                         *)
(* Text is a sequence of one-character strings, so that str.lower(),       *)
(* str.split("\n"), "\n".join and the `in` substring test are computed.   *)
(* An optional value (Python None or a value) is a sequence of length 0    *)
(* or 1.                                                                   *)
(*                                                                         *)
(* monitor_task is an `async def` whose only suspension point is the       *)
(* `await client.post(...)`: every statement before it runs without        *)
(* yielding the event loop.  `running` is the task that holds the loop.    *)
(***************************************************************************)
EXTENDS Integers, Sequences, FiniteSets, TLC

\* ------------------------------------------------------------------ bounds
NumTasks == 2
MaxPods == 3
MaxLines == 2
MaxAbsent == 2

Tasks == 1..NumTasks

\* ------------------------------------------------------------------- text
UpperCase == <<"A","B","C","D","E","F","G","H","I","J","K","L","M","N","O","P","Q","R","S","T","U","V","W","X","Y","Z">>
LowerCase == <<"a","b","c","d","e","f","g","h","i","j","k","l","m","n","o","p","q","r","s","t","u","v","w","x","y","z">>

\* str.lower(), one character
lower_char(c) ==
    IF \E i \in 1..26 : UpperCase[i] = c
    THEN LowerCase[CHOOSE i \in 1..26 : UpperCase[i] = c]
    ELSE c

\* str.lower()
lower(s) == [i \in 1..Len(s) |-> lower_char(s[i])]

\* Python's `sub in s` on strings
contains(sub, s) ==
    \E k \in 0..(Len(s) - Len(sub)) : SubSeq(s, k + 1, k + Len(sub)) = sub

Newline == "\n"

\* "\n".join(lines)
RECURSIVE join(_)
join(lines) ==
    IF lines = <<>> THEN <<>>
    ELSE IF Len(lines) = 1 THEN lines[1]
    ELSE lines[1] \o <<Newline>> \o join(Tail(lines))

\* text.split("\n"): always at least one (possibly empty) piece
RECURSIVE split(_)
split(text) ==
    IF \E i \in 1..Len(text) : text[i] = Newline
    THEN LET i == CHOOSE j \in 1..Len(text) :
                    /\ text[j] = Newline
                    /\ \A k \in 1..(j - 1) : text[k] # Newline
         IN <<SubSeq(text, 1, i - 1)>> \o split(SubSeq(text, i + 1, Len(text)))
    ELSE <<text>>

BoundedSeq(S, n) == UNION {[1..k -> S] : k \in 0..n}

\* --------------------------------------------------- the cluster's answers
LineOk == <<"o","k">>
LineERROR == <<"E","R","R","O","R">>
LineFail == <<"f","a","i","l">>
LogLines == {LineOk, LineERROR, LineFail}

\* str(e) of an ApiException
ApiNotFound == <<"(","4","0","4",")"," ","N","o","t"," ","F","o","u","n","d">>
ApiServerError == <<"(","5","0","0",")"," ","I","n","t","e","r","n","a","l"," ","S","e","r","v","e","r"," ","E","r","r","o","r">>
ApiMessages == {ApiNotFound, ApiServerError}

PodNames == <<"pod-a", "pod-b", "pod-c", "pod-d", "pod-e">>

\* What v1.read_namespaced_pod_log can do: return the log text (here, its lines
\* before they were joined), raise ApiException, or raise anything else (the
\* client raises urllib3 errors when the server cannot be reached).
ReadOutcomes(LogSet) ==
    {[kind |-> "ok", lines |-> ls, msg |-> <<>>] : ls \in LogSet}
    \cup {[kind |-> "api_exception", lines |-> <<>>, msg |-> m] : m \in ApiMessages}
    \cup {[kind |-> "exception", lines |-> <<>>, msg |-> <<>>]}

\* What v1.list_namespaced_pod can do: the first n pods, or raise.
ListOutcomes(n) ==
    {[kind |-> "ok", items |-> SubSeq(PodNames, 1, k)] : k \in 0..n}
    \cup {[kind |-> k, items |-> <<>>] : k \in {"api_exception", "exception"}}

\* ------------------------------------------------------------ the payload
PyNone == "<None>"
Labels == <<"namespace", "api_server_ip", "api_server_port", "ca_cert",
            "service_account_token", "cluster_name", "user_name">>
\* the labels a payload may lack or leave empty
VariedLabels == {"namespace", "api_server_ip", "ca_cert",
                 "service_account_token", "cluster_name"}

BaseValue(label, token) ==
    CASE label = "namespace" -> "prod"
      [] label = "api_server_ip" -> "10.0.0.1"
      [] label = "api_server_port" -> "6443"
      [] label = "ca_cert" -> "Q0E="
      [] label = "service_account_token" -> token
      [] label = "cluster_name" -> "kubernetes"
      [] label = "user_name" -> "k8s-monitor"

\* payload.settings: the Setting entries, those of `dropped` left out and those
\* of `blanked` with an empty default.
SettingsList(token, dropped, blanked) ==
    LET all == [i \in 1..Len(Labels) |->
                   [label |-> Labels[i],
                    default |-> IF Labels[i] \in blanked THEN ""
                                ELSE BaseValue(Labels[i], token)]]
    IN SelectSeq(all, LAMBDA s : s.label \notin dropped)

AbsentSets == {F \in SUBSET VariedLabels : Cardinality(F) <= MaxAbsent}

ScanPayloads ==
    {SettingsList("tokenA", F, {}) : F \in AbsentSets}
    \cup {SettingsList("tokenA", {}, F) : F \in AbsentSets}

ConcPayloads ==
    {SettingsList("tokenA", {}, {}), SettingsList("tokenB", {}, {}),
     SettingsList("tokenA", {}, {"namespace"}),
     SettingsList("tokenB", {"ca_cert", "service_account_token"}, {})}

\* ------------------------------------------------------------------ state
VARIABLES
    pc,               \* each run's position in monitor / monitor_task
    payload,          \* the MonitorPayload's settings list
    tick_response,    \* what POST /api/tick returned
    running,          \* the run holding the event loop, 0 for none
    template_exists,  \* kubeconfig_template.yaml is in the project directory
    fs,               \* the file system: path -> optional content
    os_environ,       \* os.environ["KUBECONFIG"], optional
    default_config,   \* the kubernetes client's process-wide configuration
    namespace,        \* monitor_task's locals
    kubeconfig_path,
    v1,               \* the configuration CoreV1Api() was built with
    pods,
    idx,              \* pods of the listing the loop is done with
    error_reports,
    data,
    wrote,            \* history: the run wrote a credential file
    post_attempted,   \* history: the run called client.post
    calls,            \* history: the credentials of the run's cluster calls
    log_reads,        \* history: number of read_namespaced_pod_log calls
    last_read,        \* history: the pod last read and what the read did
    list_outcome,     \* history: what list_namespaced_pod did
    post_log,         \* history: the run's POSTs to return_url, each with its outcome
    fail_stage        \* history: where the run raised

vars == <<pc, payload, tick_response, running, template_exists, fs, os_environ,
          default_config, namespace, kubeconfig_path, v1, pods, idx,
          error_reports, data, wrote, post_attempted, calls, log_reads,
          last_read, list_outcome, post_log, fail_stage>>

KubeconfigPath == "/tmp/kubeconfig.yaml"
Paths == {KubeconfigPath}

Init ==
    /\ pc = [t \in Tasks |-> "idle"]
    /\ payload = [t \in Tasks |-> <<>>]
    /\ tick_response = [t \in Tasks |-> <<>>]
    /\ running = 0
    /\ template_exists \in BOOLEAN
    /\ fs = [p \in Paths |-> <<>>]
    /\ os_environ = <<>>
    /\ default_config = <<>>
    /\ namespace = [t \in Tasks |-> PyNone]
    /\ kubeconfig_path = [t \in Tasks |-> <<>>]
    /\ v1 = [t \in Tasks |-> <<>>]
    /\ pods = [t \in Tasks |-> <<>>]
    /\ idx = [t \in Tasks |-> 0]
    /\ error_reports = [t \in Tasks |-> <<>>]
    /\ data = [t \in Tasks |-> <<>>]
    /\ wrote = [t \in Tasks |-> FALSE]
    /\ post_attempted = [t \in Tasks |-> FALSE]
    /\ calls = [t \in Tasks |-> {}]
    /\ log_reads = [t \in Tasks |-> 0]
    /\ last_read = [t \in Tasks |-> <<>>]
    /\ list_outcome = [t \in Tasks |-> "none"]
    /\ post_log = [t \in Tasks |-> <<>>]
    /\ fail_stage = [t \in Tasks |-> "none"]

\* ---------------------------------------------------------- monitor_task
\* {s.label: s.default for s in payload.settings}: a later entry of a label
\* overwrites an earlier one
Flatten(list) ==
    [l \in {list[i].label : i \in DOMAIN list} |->
        list[CHOOSE i \in DOMAIN list :
                /\ list[i].label = l
                /\ \A j \in DOMAIN list : list[j].label = l => j <= i].default]

Settings(t) == Flatten(payload[t])

\* dict.get(key, default)
settings_get(s, key, default) == IF key \in DOMAIN s THEN s[key] ELSE default

\* Python truthiness of an optional string
Truthy(x) == x # PyNone /\ x # ""

\* template.substitute(...): the credential document
Render(s) ==
    [cluster_name |-> settings_get(s, "cluster_name", "kubernetes"),
     api_server_ip |-> settings_get(s, "api_server_ip", PyNone),
     api_server_port |-> settings_get(s, "api_server_port", "6443"),
     ca_cert |-> settings_get(s, "ca_cert", PyNone),
     user_name |-> settings_get(s, "user_name", "k8s-monitor"),
     service_account_token |-> settings_get(s, "service_account_token", PyNone)]

\* `except Exception` of monitor_task: log, raise HTTPException(500); the run
\* is over and the event loop is free
Raise(t, stage) ==
    /\ pc' = [pc EXCEPT ![t] = "failed"]
    /\ fail_stage' = [fail_stage EXCEPT ![t] = stage]
    /\ running' = 0

\* the routes the app registers
Routes == {<<"GET", "/logo">>, <<"GET", "/api/integration.json">>,
           <<"POST", "/api/tick">>}

\* POST /api/tick
monitor(t, Payloads) ==
    /\ pc[t] = "idle"
    /\ \E p \in Payloads : payload' = [payload EXCEPT ![t] = p]
    /\ pc' = [pc EXCEPT ![t] = "accepted"]
    /\ tick_response' = [tick_response EXCEPT ![t] = <<[status |-> "accepted"]>>]
    /\ UNCHANGED <<list_outcome, post_log, running, template_exists, fs, os_environ, default_config,
                   namespace, kubeconfig_path, v1, pods, idx, error_reports,
                   data, wrote, post_attempted, calls, log_reads, last_read,
                   fail_stage>>

\* the background run begins: the settings are read
MonitorTaskStart(t) ==
    /\ pc[t] = "accepted"
    /\ running = 0
    /\ running' = t
    /\ namespace' = [namespace EXCEPT
                        ![t] = settings_get(Settings(t), "namespace", "default")]
    /\ pc' = [pc EXCEPT ![t] = "validate"]
    /\ UNCHANGED <<list_outcome, post_log, payload, tick_response, template_exists, fs, os_environ,
                   default_config, kubeconfig_path, v1, pods, idx,
                   error_reports, data, wrote, post_attempted, calls,
                   log_reads, last_read, fail_stage>>

\* if not api_server_ip or not ca_cert or not service_account_token
MissingRequired(s) ==
    \/ ~Truthy(settings_get(s, "api_server_ip", PyNone))
    \/ ~Truthy(settings_get(s, "ca_cert", PyNone))
    \/ ~Truthy(settings_get(s, "service_account_token", PyNone))

Validate(t) ==
    /\ pc[t] = "validate"
    /\ running = t
    /\ \/ /\ MissingRequired(Settings(t))
          /\ Raise(t, "validate")
       \/ /\ ~MissingRequired(Settings(t))
          /\ pc' = [pc EXCEPT ![t] = "generate"]
          /\ UNCHANGED <<running, fail_stage>>
    /\ UNCHANGED <<list_outcome, post_log, payload, tick_response, template_exists, fs, os_environ,
                   default_config, namespace, kubeconfig_path, v1, pods, idx,
                   error_reports, data, wrote, post_attempted, calls,
                   log_reads, last_read>>

\* generate_kubeconfig: read the template, fill it, write it to the fixed
\* path, export KUBECONFIG
GenerateKubeconfig(t) ==
    /\ pc[t] = "generate"
    /\ running = t
    /\ \/ /\ ~template_exists
          /\ Raise(t, "template")
          /\ UNCHANGED <<fs, os_environ, kubeconfig_path, wrote>>
       \/ /\ template_exists
          /\ Raise(t, "write")
          /\ UNCHANGED <<fs, os_environ, kubeconfig_path, wrote>>
       \/ /\ template_exists
          /\ fs' = [fs EXCEPT ![KubeconfigPath] = <<Render(Settings(t))>>]
          /\ os_environ' = <<KubeconfigPath>>
          /\ kubeconfig_path' = [kubeconfig_path EXCEPT ![t] = <<KubeconfigPath>>]
          /\ wrote' = [wrote EXCEPT ![t] = TRUE]
          /\ pc' = [pc EXCEPT ![t] = "load"]
          /\ UNCHANGED <<running, fail_stage>>
    /\ UNCHANGED <<list_outcome, post_log, payload, tick_response, template_exists, default_config,
                   namespace, v1, pods, idx, error_reports, data,
                   post_attempted, calls, log_reads, last_read>>

\* config.load_kube_config(config_file=kubeconfig_path): sets the client's
\* process-wide default configuration from the file, or raises
LoadKubeConfig(t) ==
    /\ pc[t] = "load"
    /\ running = t
    /\ \/ /\ fs[kubeconfig_path[t][1]] # <<>>
          /\ default_config' = fs[kubeconfig_path[t][1]]
          /\ pc' = [pc EXCEPT ![t] = "fetch"]
          /\ UNCHANGED <<running, fail_stage>>
       \/ /\ Raise(t, "load")
          /\ UNCHANGED default_config
    /\ UNCHANGED <<list_outcome, post_log, payload, tick_response, template_exists, fs, os_environ,
                   namespace, kubeconfig_path, v1, pods, idx, error_reports,
                   data, wrote, post_attempted, calls, log_reads, last_read>>

\* -------------------------------------------------------- fetch_error_logs
KwError == <<"e","r","r","o","r">>
FetchFailedPrefix == <<"F","a","i","l","e","d"," ","t","o"," ","f","e","t","c","h"," ","l","o","g","s",":"," ">>

\* the test without .lower()
IsErrorLineCaseSensitive(log) == contains(KwError, log)

\* "error" in log.lower()
IsErrorLine(log) == contains(KwError, lower(log))

\* the filter keeping a repeated line once
FilterErrorsDistinct(logs) ==
    LET hits == SelectSeq(logs, IsErrorLine)
        keep == {i \in DOMAIN hits : \A j \in 1..(i - 1) : hits[j] # hits[i]}
    IN [k \in 1..Cardinality(keep) |->
           hits[CHOOSE i \in keep : Cardinality({j \in keep : j <= i}) = k]]

\* [log for log in logs if "error" in log.lower()]
FilterErrors(logs) == SelectSeq(logs, IsErrorLine)

\* the try/except around read_namespaced_pod_log: the text split into lines,
\* or the one line the ApiException handler makes
LogsOf(outcome) ==
    IF outcome.kind = "ok"
    THEN split(join(outcome.lines))
    ELSE <<FetchFailedPrefix \o outcome.msg>>

\* if error_logs: error_reports.append({...})
AppendReport(reports, pod_name, ns, error_logs) ==
    IF error_logs # <<>>
    THEN Append(reports, [pod_name |-> pod_name, namespace |-> ns,
                          logs |-> error_logs])
    ELSE reports

\* the listing's handler swallowing the exception: the scan goes on with no pods
ListFailureSwallowed(t) ==
    /\ pods' = [pods EXCEPT ![t] = <<>>]
    /\ idx' = [idx EXCEPT ![t] = 0]
    /\ error_reports' = [error_reports EXCEPT ![t] = <<>>]
    /\ pc' = [pc EXCEPT ![t] = "scan"]
    /\ UNCHANGED <<running, fail_stage>>

\* except ApiException around the listing: raise HTTPException(500), which
\* monitor_task's handler logs and raises again
ListFailure(t) ==
    /\ Raise(t, "list")
    /\ UNCHANGED <<pods, idx, error_reports>>

\* v1 = client.CoreV1Api(); pods = v1.list_namespaced_pod(namespace)
ListPods(t, n) ==
    /\ pc[t] = "fetch"
    /\ running = t
    /\ v1' = [v1 EXCEPT ![t] = default_config]
    /\ calls' = [calls EXCEPT ![t] = @ \cup {default_config}]
    /\ \E o \in ListOutcomes(n) :
       /\ list_outcome' = [list_outcome EXCEPT ![t] = o.kind]
       /\ \/ /\ o.kind = "ok"
             /\ pods' = [pods EXCEPT ![t] = o.items]
             /\ idx' = [idx EXCEPT ![t] = 0]
             /\ error_reports' = [error_reports EXCEPT ![t] = <<>>]
             /\ pc' = [pc EXCEPT ![t] = "scan"]
             /\ UNCHANGED <<running, fail_stage>>
          \/ /\ o.kind = "api_exception"
             /\ ListFailure(t)
          \/ /\ o.kind = "exception"
             /\ Raise(t, "list")
             /\ UNCHANGED <<pods, idx, error_reports>>
    /\ UNCHANGED <<payload, tick_response, template_exists, fs, os_environ,
                   default_config, namespace, kubeconfig_path, data, wrote,
                   post_attempted, log_reads, last_read, post_log>>

\* one pass of `for pod in pods.items`
ScanPod(t, LogSet) ==
    /\ pc[t] = "scan"
    /\ running = t
    /\ idx[t] < Len(pods[t])
    /\ LET pod_name == pods[t][idx[t] + 1] IN
       \E o \in ReadOutcomes(LogSet) :
          /\ last_read' = [last_read EXCEPT ![t] = <<[pod_name |-> pod_name, outcome |-> o]>>]
          /\ log_reads' = [log_reads EXCEPT ![t] = @ + 1]
          /\ calls' = [calls EXCEPT ![t] = @ \cup {v1[t]}]
          /\ \/ /\ o.kind = "exception"
                /\ Raise(t, "read")
                /\ UNCHANGED <<idx, error_reports>>
             \/ /\ o.kind # "exception"
                /\ error_reports' =
                      [error_reports EXCEPT
                          ![t] = AppendReport(@, pod_name, namespace[t],
                                              FilterErrors(LogsOf(o)))]
                /\ idx' = [idx EXCEPT ![t] = @ + 1]
                /\ UNCHANGED <<pc, running, fail_stage>>
    /\ UNCHANGED <<list_outcome, post_log, payload, tick_response, template_exists, fs, os_environ,
                   default_config, namespace, kubeconfig_path, v1, pods, data,
                   wrote, post_attempted>>

\* --------------------------------------------------------- the notification
NoErrorsText == <<"N","o"," ","e","r","r","o","r","s"," ","f","o","u","n","d"," ","i","n"," ","K","u","b","e","r","n","e","t","e","s"," ","l","o","g","s",".">>

MessageLine(kind, pod_name, ns, text) ==
    [kind |-> kind, pod_name |-> pod_name, namespace |-> ns, text |-> text]

\* f"Pod: {pod_name}, Namespace: {namespace}\n" + "\n".join(report['logs'])
Section(report) ==
    <<MessageLine("pod_header", report.pod_name, report.namespace, <<>>)>>
    \o [i \in 1..Len(report.logs) |-> MessageLine("log", "", "", report.logs[i])]

RECURSIVE Sections(_)
Sections(reports) ==
    IF reports = <<>> THEN <<>>
    ELSE Section(Head(reports)) \o Sections(Tail(reports))

\* the message, as its lines
BuildMessage(reports) ==
    IF reports # <<>>
    THEN Sections(reports)
    ELSE <<MessageLine("text", "", "", NoErrorsText)>>

\* the status taken from more than one report
StatusOfSeveral(reports) == IF Len(reports) > 1 THEN "error" ELSE "success"

\* "error" if error_reports else "success"
StatusOf(reports) == IF reports # <<>> THEN "error" ELSE "success"

BuildData(reports) ==
    [message |-> BuildMessage(reports),
     username |-> "K8s Health Monitor",
     event_name |-> "K8s Error Report",
     status |-> StatusOf(reports)]

\* fetch_error_logs has returned: build the data and start the POST; the
\* run waits for the answer and the event loop is free
Notify(t) ==
    /\ pc[t] = "scan"
    /\ running = t
    /\ idx[t] = Len(pods[t])
    /\ data' = [data EXCEPT ![t] = <<BuildData(error_reports[t])>>]
    /\ post_attempted' = [post_attempted EXCEPT ![t] = TRUE]
    /\ post_log' = [post_log EXCEPT ![t] = Append(@, "pending")]
    /\ pc' = [pc EXCEPT ![t] = "posting"]
    /\ running' = 0
    /\ UNCHANGED <<list_outcome, payload, tick_response, template_exists, fs, os_environ,
                   default_config, namespace, kubeconfig_path, v1, pods, idx,
                   error_reports, wrote, calls, log_reads, last_read,
                   fail_stage>>

\* the POST has answered (any status code), or httpx raised
PostReturn(t) ==
    /\ pc[t] = "posting"
    /\ running = 0
    /\ \/ /\ post_log' = [post_log EXCEPT ![t][Len(post_log[t])] = "response"]
          /\ pc' = [pc EXCEPT ![t] = "done"]
          /\ UNCHANGED <<running, fail_stage>>
       \/ /\ post_log' = [post_log EXCEPT ![t][Len(post_log[t])] = "exception"]
          /\ Raise(t, "post")
    /\ UNCHANGED <<list_outcome, payload, tick_response, template_exists, fs, os_environ,
                   default_config, namespace, kubeconfig_path, v1, pods, idx,
                   error_reports, data, wrote, post_attempted, calls,
                   log_reads, last_read>>

\* ---------------------------------------------------------- specifications
Step(t, Payloads, n, LogSet) ==
    \/ monitor(t, Payloads)
    \/ MonitorTaskStart(t)
    \/ Validate(t)
    \/ GenerateKubeconfig(t)
    \/ LoadKubeConfig(t)
    \/ ListPods(t, n)
    \/ ScanPod(t, LogSet)
    \/ Notify(t)
    \/ PostReturn(t)

ConcLogs == {<<LineOk>>, <<LineERROR>>}

\* concurrent runs, small cluster answers: at most one pod
Next == \E t \in Tasks : Step(t, ConcPayloads, 1, ConcLogs)
Spec == Init /\ [][Next]_vars

\* one run, every settings variant and every cluster answer within the bounds
NextScan == Step(1, ScanPayloads, MaxPods, BoundedSeq(LogLines, MaxLines))
SpecScan == Init /\ [][NextScan]_vars

\* ------------------------------------------------------------------ claims
Ended == {"done", "failed"}
InFlight(t) == pc[t] \notin {"idle", "done", "failed"}

\* case-insensitive occurrence of a lower-case keyword in a line
FoldEq(ch, k) == ch = k \/ \E i \in 1..26 : UpperCase[i] = ch /\ LowerCase[i] = k
MatchesKeyword(line, kw) ==
    \E off \in 0..(Len(line) - Len(kw)) :
        \A j \in 1..Len(kw) : FoldEq(line[off + j], kw[j])

ReportsOf(t, pod_name) ==
    {i \in DOMAIN error_reports[t] : error_reports[t][i].pod_name = pod_name}

\* C1: with two or more runs in flight, no two of them hold the same
\* credential file, and every cluster call of a run is made with the
\* credentials rendered from that run's own settings.
C1_CredentialIsolation ==
    /\ \A t1, t2 \in Tasks :
          (/\ t1 # t2
           /\ InFlight(t1) /\ InFlight(t2)
           /\ kubeconfig_path[t1] # <<>> /\ kubeconfig_path[t2] # <<>>)
          => kubeconfig_path[t1] # kubeconfig_path[t2]
    /\ \A t \in Tasks : \A c \in calls[t] : c = <<Render(Settings(t))>>

\* C2: a pod whose log read failed is in the report, flagged with the fetch
\* error, and the failure did not end the scan.
C2_ReadFailureReported ==
    \A t \in Tasks :
        (last_read[t] # <<>> /\ last_read[t][1].outcome.kind # "ok")
        => /\ fail_stage[t] # "read"
           /\ \E i \in ReportsOf(t, last_read[t][1].pod_name) :
                 error_reports[t][i].logs =
                    <<FetchFailedPrefix \o last_read[t][1].outcome.msg>>

\* C3: once a run that wrote a credential file has ended, on any exit path,
\* that file no longer exists.
C3_CredentialFileRemoved ==
    \A t \in Tasks :
        (pc[t] \in Ended /\ wrote[t]) => fs[kubeconfig_path[t][1]] = <<>>

\* C4: a run that has ended has attempted the POST to return_url, also when
\* the kubeconfig could not be loaded or the pod listing failed.
C4_EveryOutcomeNotified ==
    \A t \in Tasks :
        (pc[t] \in Ended /\ fail_stage[t] \in {"none", "load", "list"})
        => post_attempted[t]

\* C5: when the pod listing fails, no pod's logs are read, no pod report is
\* produced, nothing is dispatched and the run has ended as failed.
C5_ListFailureAborts ==
    \A t \in Tasks :
        list_outcome[t] \in {"api_exception", "exception"}
        => /\ log_reads[t] = 0
           /\ error_reports[t] = <<>>
           /\ data[t] = <<>>
           /\ ~post_attempted[t]
           /\ pc[t] = "failed"

C5_Witness ==
    \E t \in Tasks :
        /\ list_outcome[t] = "api_exception"
        /\ pc[t] = "failed"
        /\ wrote[t]

\* the settings the provisioner requires
RequiredLabels == {"cluster_name", "api_server_ip", "ca_cert",
                   "service_account_token", "namespace"}

\* the required settings that are missing or empty
AbsentRequired(list) ==
    {l \in RequiredLabels :
        l \notin DOMAIN Flatten(list) \/ Flatten(list)[l] = ""}

\* the fields the error of a failed run names
NamedFields(stage) ==
    IF stage = "validate"
    THEN {"api_server_ip", "ca_cert", "service_account_token"}
    ELSE {}

\* C6: when a required setting (cluster name, API server address, CA
\* certificate, service-account token, namespace) is empty or missing, the
\* run fails before a credential file is written or a cluster call is made,
\* and the error names every absent field.
C6_MissingSettingsRejected ==
    \A t \in Tasks :
        (pc[t] # "idle" /\ AbsentRequired(payload[t]) # {})
        => /\ pc[t] \in {"accepted", "validate", "failed"}
           /\ ~wrote[t]
           /\ calls[t] = {}
           /\ pc[t] = "failed" => AbsentRequired(payload[t]) \subseteq NamedFields(fail_stage[t])

\* C7: every accepted tick has a task entry, created in state accepted and
\* followed through running to succeeded or failed, that a status query
\* looks up by the task's id (not_found once it is removed): the tick's
\* response gives that id and the service has the status route.
C7_TaskEntryPerTick ==
    \A t \in Tasks :
        pc[t] # "idle"
        => /\ "task_id" \in DOMAIN tick_response[t][1]
           /\ <<"GET", "/api/tasks/{task_id}">> \in Routes

\* the pod last read, when its read succeeded
ReadOk(t) == last_read[t] # <<>> /\ last_read[t][1].outcome.kind = "ok"
LastPod(t) == last_read[t][1].pod_name
LastLines(t) == last_read[t][1].outcome.lines

SpecKeywords ==
    {<<"e","r","r","o","r">>, <<"e","x","c","e","p","t","i","o","n">>,
     <<"f","a","i","l">>, <<"f","a","t","a","l">>, <<"p","a","n","i","c">>,
     <<"c","r","i","t","i","c","a","l">>}

\* C8 as amended: a pod whose logs were read successfully is in the report
\* if and only if at least one of its log lines contains, case-insensitively,
\* the keyword error.
C8_ReportedIffErrorLine ==
    \A t \in Tasks :
        ReadOk(t)
        => (ReportsOf(t, LastPod(t)) # {}
            <=> \E i \in DOMAIN LastLines(t) :
                   MatchesKeyword(LastLines(t)[i], <<"e","r","r","o","r">>))

\* C8 as stated: ... if and only if at least one of its log lines contains,
\* case-insensitively, one of error, exception, fail, fatal, panic, critical.
C8_ReportedIffAnyKeyword ==
    \A t \in Tasks :
        ReadOk(t)
        => (ReportsOf(t, LastPod(t)) # {}
            <=> \E i \in DOMAIN LastLines(t) : \E kw \in SpecKeywords :
                   MatchesKeyword(LastLines(t)[i], kw))

C8_Witness ==
    \E t \in Tasks :
        /\ ReadOk(t)
        /\ \E i \in DOMAIN LastLines(t) : LastLines(t)[i] = LineERROR
        /\ ReportsOf(t, LastPod(t)) # {}

\* the indices of the lines that match the keyword error, and the k-th of them
MatchIndices(lines) ==
    {i \in DOMAIN lines : MatchesKeyword(lines[i], <<"e","r","r","o","r">>)}
NthOf(S, k) == CHOOSE i \in S : Cardinality({j \in S : j <= i}) = k

Separator == <<"-","-","-">>
Max2(a, b) == IF a > b THEN a ELSE b
Min2(a, b) == IF a < b THEN a ELSE b

\* lines[max(0,i-2) .. min(len,i+3)) and the separator, i counted from 1 here
Window(lines, i) ==
    SubSeq(lines, Max2(1, i - 2), Min2(Len(lines), i + 2)) \o <<Separator>>

RECURSIVE Windows(_, _, _)
Windows(lines, M, k) ==
    IF k > Cardinality(M) THEN <<>>
    ELSE Window(lines, NthOf(M, k)) \o Windows(lines, M, k + 1)

HeaderPods(message) ==
    LET hs == SelectSeq(message, LAMBDA l : l.kind = "pod_header")
    IN [i \in 1..Len(hs) |-> hs[i].pod_name]

StatusAsReports(t) ==
    LET d == data[t][1]
        r == error_reports[t]
    IN /\ d.status = "error" <=> Len(r) > 0
       /\ d.status = "success" <=> Len(r) = 0
       /\ Len(r) = 0 => /\ Len(d.message) = 1
                        /\ d.message[1].kind = "text"
                        /\ d.message[1].text = NoErrorsText
       /\ pods[t] = <<>> => d.status = "success" /\ post_attempted[t]

C11_SinglePostFailureSwallowed ==
    \A t \in Tasks :
        /\ Len(post_log[t]) <= 1
        /\ post_log[t] = <<"exception">>
           => /\ pc[t] # "failed"
              /\ fail_stage[t] = "none"
              /\ tick_response[t] = <<[status |-> "accepted"]>>

====
